---- MODULE Spec2Model ----
(***************************************************************************)
(* Model of hugchat's Message (src/hugchat/message.py): a wrapper around a *)
(* generator of server events that classifies each event, accumulates the  *)
(* final answer and the web-search sources, and tracks a three-valued      *)
(* status.                                                                 *)
(*                                                                         *)
(* Python strings are modelled as sequences of word tokens, so that the    *)
(* substring test `"Model is overloaded" in str(a)` is a real search.      *)
(* A dict is a record holding the set of keys present next to the values;  *)
(* the value of an absent key is a filler that the model never reads       *)
(* without first testing the key.  Exceptions are records [kind, arg].     *)
(* The producer's own failures are instances of Exception (transport       *)
(* errors); asynchronous BaseExceptions are outside the model.             *)
(***************************************************************************)
EXTENDS Integers, Sequences, FiniteSets, TLC

VARIABLES
    msg,        \* the Message object's fields
    g,          \* the wrapped generator: "unstarted", "suspended", "finished"
    npulls,     \* how many times the generator has been resumed
    pc,         \* "idle", or "wait" while wait_until_done runs its loop
    op,         \* the last call that ran
    ret,        \* what the last call returned or raised
    pull,       \* what next(self.g) did in the last __next__ that reached it
    out,        \* the elements a `for` loop over the Message received
    pulled,     \* the events that loop's __next__ calls pulled
    waitResult, \* how the last wait_until_done ended
    readers,    \* two Messages side by side, their list fields as references
    heap        \* the list objects those references point to

vars == <<msg, g, npulls, pc, op, ret, pull, out, pulled, waitResult, readers, heap>>

----------------------------------------------------------------------------
\* Bounds

MaxPulls == 2

----------------------------------------------------------------------------
\* Constants of the module

MSGTYPE_FINAL == "finalAnswer"
MSGTYPE_STREAM == "stream"
MSGTYPE_WEB == "webSearch"
MSGTYPE_STATUS == "status"

MSGSTATUS_PENDING == 0
MSGSTATUS_RESOLVED == 1
MSGSTATUS_REJECTED == 2

\* The literal searched for in str(a).
OverloadMarker == <<"Model", "is", "overloaded">>

----------------------------------------------------------------------------
\* Strings

RECURSIVE IsPrefix(_, _)
IsPrefix(p, s) ==
    IF p = <<>> THEN TRUE
    ELSE IF s = <<>> THEN FALSE
    ELSE Head(p) = Head(s) /\ IsPrefix(Tail(p), Tail(s))

\* Python's `p in s` on strings.
RECURSIVE StrIn(_, _)
StrIn(p, s) ==
    IF IsPrefix(p, s) THEN TRUE
    ELSE IF s = <<>> THEN FALSE
    ELSE StrIn(p, Tail(s))

----------------------------------------------------------------------------
\* Exceptions

NoError == [kind |-> "None", arg |-> <<>>]
KeyError(k) == [kind |-> "KeyError", arg |-> <<k>>]
StopIteration == [kind |-> "StopIteration", arg |-> <<>>]
TypeError == [kind |-> "TypeError", arg |-> <<"can't", "send", "non-None", "value">>]
ChatError(v) == [kind |-> "ChatError", arg |-> v]
ModelOverloadedError(v) == [kind |-> "ModelOverloadedError", arg |-> v]
GenericException(v) == [kind |-> "Exception", arg |-> v]

\* Failures the producer itself may raise while being resumed.
Failures ==
    { [kind |-> "ConnectionError", arg |-> <<"reset">>],
      [kind |-> "TimeoutError", arg |-> <<"timeout">>] }

\* What a caller may inject with throw().
Thrown == { [kind |-> "GeneratorExit", arg |-> <<>>] }

----------------------------------------------------------------------------
\* Events: the dicts the producer yields

SourceKeys == {"title", "link", "hostname"}

MkSource(ks, t, l, h) == [keys |-> ks, title |-> t, link |-> l, hostname |-> h]

SourceT == MkSource(SourceKeys, "T", "L", "H")
SourceU == MkSource(SourceKeys, "U", "M", "I")
SourceNoLink == MkSource({"title", "hostname"}, "V", "", "J")

MkEvent(ks, ty, tx, er, so) ==
    [keys |-> ks, type |-> ty, text |-> tx, error |-> er, sources |-> so]

Typed(ty) == MkEvent({"type"}, ty, <<>>, <<>>, <<>>)
WithText(a, tx) == [a EXCEPT !.keys = @ \cup {"text"}, !.text = tx]
WithError(a, er) == [a EXCEPT !.keys = @ \cup {"error"}, !.error = er]
WithSources(a, so) == [a EXCEPT !.keys = @ \cup {"sources"}, !.sources = so]
Untyped == MkEvent({}, "", <<>>, <<>>, <<>>)

BadRequest == <<"bad", "request">>
Overloaded == <<"overloaded", "-">> \o OverloadMarker

\* The events the producer may yield.
Events ==
    { WithText(Typed(MSGTYPE_STREAM), <<"tok1">>),
      WithText(Typed(MSGTYPE_STREAM), <<"tok2">>),
      Typed(MSGTYPE_STATUS),
      WithError(Typed(MSGTYPE_STATUS), Overloaded),
      WithText(Typed(MSGTYPE_FINAL), <<"hello">>),
      WithText(Typed(MSGTYPE_FINAL), <<>>),
      Typed(MSGTYPE_FINAL),
      Typed(MSGTYPE_WEB),
      WithSources(Typed(MSGTYPE_WEB), <<SourceT>>),
      WithSources(Typed(MSGTYPE_WEB), <<SourceU, SourceT>>),
      WithSources(Typed(MSGTYPE_WEB), <<SourceT, SourceNoLink>>),
      Typed("foo"),
      WithError(Typed("foo"), BadRequest),
      WithError(Typed("foo"), Overloaded),
      WithText(Typed("foo"), Overloaded),
      Untyped,
      WithError(Untyped, BadRequest),
      WithError(Untyped, Overloaded) }

\* str(source) for a source dict.
StrSource(s) ==
    <<"{">>
    \o (IF "title" \in s.keys THEN <<"title", ":", s.title, ",">> ELSE <<>>)
    \o (IF "link" \in s.keys THEN <<"link", ":", s.link, ",">> ELSE <<>>)
    \o (IF "hostname" \in s.keys THEN <<"hostname", ":", s.hostname, ",">> ELSE <<>>)
    \o <<"}">>

RECURSIVE StrSources(_)
StrSources(ss) ==
    IF ss = <<>> THEN <<>>
    ELSE StrSource(Head(ss)) \o <<",">> \o StrSources(Tail(ss))

\* str(a): the keys present, each with its value.
Str(a) ==
    <<"{">>
    \o (IF "type" \in a.keys THEN <<"type", ":", a.type, ",">> ELSE <<>>)
    \o (IF "text" \in a.keys THEN <<"text", ":">> \o a.text \o <<",">> ELSE <<>>)
    \o (IF "error" \in a.keys THEN <<"error", ":">> \o a.error \o <<",">> ELSE <<>>)
    \o (IF "sources" \in a.keys
          THEN <<"sources", ":", "[">> \o StrSources(a.sources) \o <<"]", ",">>
          ELSE <<>>)
    \o <<"}">>

----------------------------------------------------------------------------
\* Message

\* WebSearchSource object built from a source dict whose three keys are present.
WebSearchSource(source) ==
    [title |-> source.title, link |-> source.link, hostname |-> source.hostname]

\* The class body's `web_search_done: bool = not web_search`: the default is
\* computed once, when the class is defined, from the class attribute
\* web_search = False of the line above; the constructor's web_search
\* argument does not enter it.
DefaultWebSearchDone == ~FALSE

\* The dataclass-generated constructor Message(g, _stream_yield_all, web_search).
NewMessage(yieldAll, webSearch) ==
    [ _stream_yield_all |-> yieldAll,
      web_search |-> webSearch,
      web_search_sources |-> <<>>,
      final_answer |-> <<>>,
      web_search_done |-> DefaultWebSearchDone,
      msg_status |-> MSGSTATUS_PENDING,
      error |-> NoError ]

\* done()
done(self) == self.msg_status

\* done_search()
done_search(self) == self.web_search_done

\* The result of running a block of __next__: the object after it, the
\* exception it raised (NoError if none) and the value it returned.
Outcome(self, exc, r) == [self |-> self, exc |-> exc, ret |-> r]

\* Values a call hands back: an event, None, or a raised exception.
RetEvent(a) == [kind |-> "event", ev |-> a, err |-> NoError]
RetNone == [kind |-> "None", ev |-> Untyped, err |-> NoError]
RetRaise(e) == [kind |-> "raise", ev |-> Untyped, err |-> e]

\* `if self.msg_status:` -- the status is terminal.
IsTerminalOnlyRejected(self) == self.msg_status = MSGSTATUS_REJECTED
IsTerminal(self) == self.msg_status # MSGSTATUS_PENDING

\* The loop over a["sources"]: each source dict is read title, link, hostname
\* and appended; a missing key raises KeyError and leaves what was appended.
RECURSIVE AppendSources(_, _)
AppendSources(list, sources) ==
    IF sources = <<>> THEN [list |-> list, exc |-> NoError]
    ELSE LET source == Head(sources) IN
         IF "title" \notin source.keys THEN [list |-> list, exc |-> KeyError("title")]
         ELSE IF "link" \notin source.keys THEN [list |-> list, exc |-> KeyError("link")]
         ELSE IF "hostname" \notin source.keys
              THEN [list |-> list, exc |-> KeyError("hostname")]
         ELSE AppendSources(Append(list, WebSearchSource(source)), Tail(sources))

\* The branch for t == MSGTYPE_STREAM.
OnStreamLeavesFlag(self, a) == Outcome(self, NoError, RetNone)
OnStream(self, a) == Outcome([self EXCEPT !.web_search_done = TRUE], NoError, RetNone)

\* The branch for t == MSGTYPE_FINAL.
OnFinalKeepsPending(self, a) ==
    IF "text" \notin a.keys THEN Outcome(self, KeyError("text"), RetNone)
    ELSE Outcome([self EXCEPT !.final_answer = a.text], NoError, RetNone)
OnFinal(self, a) ==
    IF "text" \notin a.keys THEN Outcome(self, KeyError("text"), RetNone)
    ELSE Outcome([self EXCEPT !.final_answer = a.text,
                              !.msg_status = MSGSTATUS_RESOLVED], NoError, RetNone)

\* The branch for t == MSGTYPE_WEB.
OnWeb(self, a) ==
    IF "sources" \notin a.keys THEN Outcome(self, NoError, RetNone)
    ELSE LET r == AppendSources(<<>>, a.sources) IN
         Outcome([self EXCEPT !.web_search_sources = r.list], r.exc, RetNone)

\* The else branch: an event of no known type.
OnOtherRejectsUnknown(self, a) ==
    IF StrIn(OverloadMarker, Str(a))
    THEN Outcome([self EXCEPT
                    !.error = ModelOverloadedError(
                        <<"Model", "is", "overloaded,", "please", "try", "again", "later">>),
                    !.msg_status = MSGSTATUS_REJECTED], NoError, RetNone)
    ELSE IF "error" \in a.keys
    THEN Outcome([self EXCEPT !.error = ChatError(a.error),
                              !.msg_status = MSGSTATUS_REJECTED], NoError, RetNone)
    ELSE Outcome([self EXCEPT
                    !.error = ChatError(<<"Unknow", "json", "response:">> \o Str(a)),
                    !.msg_status = MSGSTATUS_REJECTED],
                 NoError, RetNone)
OnOther(self, a) ==
    IF StrIn(OverloadMarker, Str(a))
    THEN Outcome([self EXCEPT
                    !.error = ModelOverloadedError(
                        <<"Model", "is", "overloaded,", "please", "try", "again", "later">>),
                    !.msg_status = MSGSTATUS_REJECTED], NoError, RetNone)
    ELSE IF "error" \in a.keys
    THEN Outcome([self EXCEPT !.error = ChatError(a.error),
                              !.msg_status = MSGSTATUS_REJECTED], NoError, RetNone)
    ELSE Outcome([self EXCEPT
                    !.error = ChatError(<<"Unknow", "json", "response:">> \o Str(a))],
                 NoError, RetNone)

\* `if self._stream_yield_all or t == MSGTYPE_STREAM: return a`
Surfaced(self, a) == self._stream_yield_all \/ a.type = MSGTYPE_STREAM

\* The try block after the pull: a["type"], the dispatch on it, the return.
TryBody(self, a) ==
    IF "type" \notin a.keys THEN Outcome(self, KeyError("type"), RetNone)
    ELSE LET t == a.type
             d == IF t = MSGTYPE_STREAM THEN OnStream(self, a)
                  ELSE IF t = MSGTYPE_STATUS THEN Outcome(self, NoError, RetNone)
                  ELSE IF t = MSGTYPE_FINAL THEN OnFinal(self, a)
                  ELSE IF t = MSGTYPE_WEB THEN OnWeb(self, a)
                  ELSE OnOther(self, a)
         IN IF d.exc # NoError THEN d
            ELSE IF Surfaced(d.self, a) THEN Outcome(d.self, NoError, RetEvent(a))
            ELSE d

\* `except Exception as e:` -- the error is stored, the call returns None.
ExceptKeepsPending(self, e) == [self EXCEPT !.error = e]
ExceptDropsError(self, e) == [self EXCEPT !.msg_status = MSGSTATUS_REJECTED]
Except(self, e) == [self EXCEPT !.error = e, !.msg_status = MSGSTATUS_REJECTED]

\* What next(self.g) may do: yield an event, raise a failure, or end.
PullEvent(a) == [kind |-> "event", ev |-> a, err |-> NoError]
PullRaise(e) == [kind |-> "raise", ev |-> Untyped, err |-> e]
PullStop == [kind |-> "stop", ev |-> Untyped, err |-> StopIteration]
NoPull == [kind |-> "none", ev |-> Untyped, err |-> NoError]

\* __next__, given what next(self.g) does if it is reached (p).
__next__(self, p) ==
    IF IsTerminal(self) THEN Outcome(self, NoError, RetRaise(StopIteration))
    ELSE IF p.kind # "event" THEN Outcome(Except(self, p.err), NoError, RetNone)
    ELSE LET b == TryBody(self, p.ev) IN
         IF b.exc # NoError THEN Outcome(Except(b.self, b.exc), NoError, RetNone)
         ELSE b

\* How a wait_until_done ended: it returned a string or raised.
WaitReturned(v) == [kind |-> "return", text |-> v, err |-> NoError]
WaitRaised(e) == [kind |-> "raise", text |-> <<>>, err |-> e]
NotWaited == [kind |-> "none", text |-> <<>>, err |-> NoError]

\* The tail of wait_until_done, after its loop.
WaitOutcomeErrorFirst(self) ==
    IF self.error # NoError THEN WaitRaised(self.error)
    ELSE WaitReturned(self.final_answer)
WaitOutcome(self) ==
    IF done(self) = MSGSTATUS_RESOLVED THEN WaitReturned(self.final_answer)
    ELSE IF self.error # NoError THEN WaitRaised(self.error)
    ELSE WaitRaised(GenericException(<<"Rejected", "but", "no", "error", "captured!">>))

----------------------------------------------------------------------------
\* The producer: a generator, resumed by next(), send() and throw()

PullOutcomes ==
    {PullEvent(a) : a \in Events} \cup {PullRaise(e) : e \in Failures} \cup {PullStop}

\* The generator is resumed and does p: it yields one more event, raises a
\* failure or returns; a finished generator only signals StopIteration.
Resume(p) ==
    \/ /\ g = "finished"
       /\ p = PullStop
       /\ UNCHANGED <<g, npulls>>
    \/ /\ g # "finished"
       /\ p.kind = "event"
       /\ npulls < MaxPulls
       /\ g' = "suspended"
       /\ npulls' = npulls + 1
    \/ /\ g # "finished"
       /\ p.kind # "event"
       /\ g' = "finished"
       /\ npulls' = npulls

----------------------------------------------------------------------------
\* The calls

Init ==
    /\ msg \in {NewMessage(y, w) : y \in BOOLEAN, w \in BOOLEAN}
    /\ g = "unstarted"
    /\ npulls = 0
    /\ pc = "idle"
    /\ op = "init"
    /\ ret = RetNone
    /\ pull = NoPull
    /\ out = <<>>
    /\ pulled = <<>>
    /\ waitResult = NotWaited
    /\ readers = <<>>
    /\ heap = <<>>

\* One step of `for res in msg`: __next__ on a terminal Message raises
\* StopIteration and the loop ends.
NextTerminal ==
    /\ pc = "idle"
    /\ IsTerminal(msg)
    /\ op' = "next"
    /\ ret' = __next__(msg, NoPull).ret
    /\ msg' = __next__(msg, NoPull).self
    /\ UNCHANGED <<g, npulls, pc, pull, out, pulled, waitResult, readers, heap>>

\* One step of `for res in msg` on a pending Message: the generator is
\* resumed and the loop body receives what __next__ returns.
NextPending ==
    /\ pc = "idle"
    /\ ~IsTerminal(msg)
    /\ \E p \in PullOutcomes :
         /\ Resume(p)
         /\ LET r == __next__(msg, p) IN
              /\ msg' = r.self
              /\ ret' = r.ret
              /\ out' = Append(out, r.ret)
         /\ pull' = p
         /\ pulled' = IF p.kind = "event" THEN Append(pulled, p.ev) ELSE pulled
    /\ op' = "next"
    /\ UNCHANGED <<pc, waitResult, readers, heap>>

\* wait_until_done is entered.
WaitCall ==
    /\ pc = "idle"
    /\ pc' = "wait"
    /\ op' = "wait_call"
    /\ UNCHANGED <<msg, g, npulls, ret, pull, out, pulled, waitResult, readers, heap>>

\* `while not self.done(): self.__next__()` -- one turn of the loop; the
\* value __next__ returns is dropped.
WaitLoop ==
    /\ pc = "wait"
    /\ done(msg) = MSGSTATUS_PENDING
    /\ \E p \in PullOutcomes :
         /\ Resume(p)
         /\ msg' = __next__(msg, p).self
         /\ pull' = p
    /\ op' = "wait_next"
    /\ UNCHANGED <<pc, ret, out, pulled, waitResult, readers, heap>>

\* The loop has ended: the answer is returned or the error raised.
WaitReturn ==
    /\ pc = "wait"
    /\ done(msg) # MSGSTATUS_PENDING
    /\ waitResult' = WaitOutcome(msg)
    /\ pc' = "idle"
    /\ op' = "wait_return"
    /\ UNCHANGED <<msg, g, npulls, ret, pull, out, pulled, readers, heap>>

\* What the caller gets from a resumed generator outside __next__.
Forwarded(p) == IF p.kind = "event" THEN RetEvent(p.ev) ELSE RetRaise(p.err)

\* send(v): self.g.send(v).  A generator that has not started accepts only
\* None; otherwise it is resumed and its next event returned.
SendClassifies ==
    /\ pc = "idle"
    /\ \E v \in {"None", "value"} :
         IF g = "unstarted" /\ v # "None"
         THEN /\ ret' = RetRaise(TypeError)
              /\ UNCHANGED <<g, npulls, msg>>
         ELSE \E p \in PullOutcomes :
                /\ Resume(p)
                /\ ret' = Forwarded(p)
                /\ msg' = __next__(msg, p).self
    /\ op' = "send"
    /\ UNCHANGED <<pc, pull, out, pulled, waitResult, readers, heap>>
Send ==
    /\ pc = "idle"
    /\ \E v \in {"None", "value"} :
         IF g = "unstarted" /\ v # "None"
         THEN /\ ret' = RetRaise(TypeError)
              /\ UNCHANGED <<g, npulls>>
         ELSE \E p \in PullOutcomes :
                /\ Resume(p)
                /\ ret' = Forwarded(p)
    /\ op' = "send"
    /\ UNCHANGED <<msg, pc, pull, out, pulled, waitResult, readers, heap>>

\* throw(typ, val, tb): self.g.throw(...).  The exception is raised inside
\* the generator, which lets it through (and is finished) or, if suspended
\* in a try block, handles it and goes on to its next event or its end.
Throw ==
    /\ pc = "idle"
    /\ \E e \in Thrown :
         \/ /\ g' = "finished"
            /\ npulls' = npulls
            /\ ret' = RetRaise(e)
         \/ /\ g = "suspended"
            /\ \E p \in PullOutcomes :
                 /\ Resume(p)
                 /\ ret' = Forwarded(p)
    /\ op' = "throw"
    /\ UNCHANGED <<msg, pc, pull, out, pulled, waitResult, readers, heap>>

Next ==
    \/ NextTerminal
    \/ NextPending
    \/ WaitCall
    \/ WaitLoop
    \/ WaitReturn
    \/ Send
    \/ Throw

Spec == Init /\ [][Next]_vars

\* A caller blocked in wait_until_done: the loop and the return after it are
\* straight-line code of one thread, so each runs when it can.
SpecWait == Init /\ [][Next]_vars /\ WF_vars(WaitLoop) /\ WF_vars(WaitReturn)

\* The dataclass constructor also takes web_search_done as a keyword:
\* Message(g, _stream_yield_all, web_search, web_search_done=d).
InitFields ==
    /\ msg \in {[NewMessage(y, w) EXCEPT !.web_search_done = d] :
                  y \in BOOLEAN, w \in BOOLEAN, d \in BOOLEAN}
    /\ g = "unstarted"
    /\ npulls = 0
    /\ pc = "idle"
    /\ op = "init"
    /\ ret = RetNone
    /\ pull = NoPull
    /\ out = <<>>
    /\ pulled = <<>>
    /\ waitResult = NotWaited
    /\ readers = <<>>
    /\ heap = <<>>

SpecFields == InitFields /\ [][Next]_vars

----------------------------------------------------------------------------
\* Two Messages built without a web_search_sources argument.  The class
\* body evaluates `list()` once, so both start with a reference to that one
\* list object; here the field is a reference into the heap of lists.

Readers == {1, 2}

\* The list object made by the class body's `list()`.
DefaultList == 1

\* `self.web_search_sources = list()`: the field is bound to a new list.
ClearInPlace(h, ref) == [heap |-> [h EXCEPT ![ref] = <<>>], ref |-> ref]
Rebind(h, ref) == [heap |-> Append(h, <<>>), ref |-> Len(h) + 1]

\* The webSearch branch on the heap: the field is rebound, then each source
\* is appended to the list the field now refers to.
HeapOnWeb(h, ref, a) ==
    LET b == Rebind(h, ref) IN
    [heap |-> [b.heap EXCEPT ![b.ref] = AppendSources(@, a.sources).list],
     ref |-> b.ref]

\* __next__ reaches the webSearch branch with a sources key.
ReachesSources(self, p) ==
    /\ ~IsTerminal(self)
    /\ p.kind = "event"
    /\ "type" \in p.ev.keys
    /\ p.ev.type = MSGTYPE_WEB
    /\ "sources" \in p.ev.keys

\* The generator of one reader can do p, and its state afterwards.
CanResume(gs, n, p) ==
    \/ gs = "finished" /\ p = PullStop
    \/ gs # "finished" /\ p.kind = "event" /\ n < MaxPulls
    \/ gs # "finished" /\ p.kind # "event"
Resumed(gs, n, p) ==
    IF gs = "finished" THEN [g |-> gs, npulls |-> n]
    ELSE IF p.kind = "event" THEN [g |-> "suspended", npulls |-> n + 1]
    ELSE [g |-> "finished", npulls |-> n]

\* A reader: the Message's fields other than the list (self), the
\* reference held in web_search_sources (ref), and its generator.
NewReader ==
    [self |-> NewMessage(FALSE, FALSE), ref |-> DefaultList,
     g |-> "unstarted", npulls |-> 0]

InitShared ==
    /\ readers = [r \in Readers |-> NewReader]
    /\ heap = << <<>> >>
    /\ msg = NewMessage(FALSE, FALSE)
    /\ g = "unstarted"
    /\ npulls = 0
    /\ pc = "idle"
    /\ op = "init"
    /\ ret = RetNone
    /\ pull = NoPull
    /\ out = <<>>
    /\ pulled = <<>>
    /\ waitResult = NotWaited

\* __next__ on reader r while it is pending; on a terminal reader the call
\* raises StopIteration and touches nothing.
NextOf(r) ==
    /\ ~IsTerminal(readers[r].self)
    /\ \E p \in PullOutcomes :
         LET rd == readers[r]
             after == Resumed(rd.g, rd.npulls, p)
             onHeap == IF ReachesSources(rd.self, p)
                         THEN HeapOnWeb(heap, rd.ref, p.ev)
                         ELSE [heap |-> heap, ref |-> rd.ref]
         IN /\ CanResume(rd.g, rd.npulls, p)
            /\ readers' = [readers EXCEPT ![r] =
                             [self |-> __next__(rd.self, p).self,
                              ref |-> onHeap.ref,
                              g |-> after.g,
                              npulls |-> after.npulls]]
            /\ heap' = onHeap.heap
    /\ UNCHANGED <<msg, g, npulls, pc, op, ret, pull, out, pulled, waitResult>>

NextShared == \E r \in Readers : NextOf(r)

SpecShared == InitShared /\ [][NextShared]_vars

\* The calls return values of these shapes.
TypeOK ==
    /\ msg.msg_status \in {MSGSTATUS_PENDING, MSGSTATUS_RESOLVED, MSGSTATUS_REJECTED}
    /\ g \in {"unstarted", "suspended", "finished"}
    /\ npulls \in 0..MaxPulls
    /\ pc \in {"idle", "wait"}
    /\ ret.kind \in {"event", "None", "raise"}
    /\ waitResult.kind \in {"none", "return", "raise"}

----------------------------------------------------------------------------
\* Properties

Pending == msg.msg_status = MSGSTATUS_PENDING
Resolved == msg.msg_status = MSGSTATUS_RESOLVED
Rejected == msg.msg_status = MSGSTATUS_REJECTED

\* The event has one of the four known types.
KnownType(a) ==
    /\ "type" \in a.keys
    /\ a.type \in {MSGTYPE_FINAL, MSGTYPE_STREAM, MSGTYPE_WEB, MSGTYPE_STATUS}

IsStream(a) == "type" \in a.keys /\ a.type = MSGTYPE_STREAM

\* The step ran __next__ (from a `for` loop or from wait_until_done).
NextRan == op' \in {"next", "wait_next"}

\* The step leaves the accumulated fields other than status and error alone.
ResultsUnchanged ==
    /\ msg'.final_answer = msg.final_answer
    /\ msg'.web_search_sources = msg.web_search_sources
    /\ msg'.web_search_done = msg.web_search_done

\* C1: over any sequence of __next__, wait_until_done, send and throw calls
\* the status only changes from pending to resolved or from pending to
\* rejected; a resolved or rejected status never changes again.
C1_StatusMonotonic ==
    [][msg'.msg_status # msg.msg_status
         => /\ msg.msg_status = MSGSTATUS_PENDING
            /\ msg'.msg_status \in {MSGSTATUS_RESOLVED, MSGSTATUS_REJECTED}]_vars

\* A resolved Message whose generator went on to yield one more event to
\* send().
C1_Witness ==
    /\ Resolved
    /\ g = "suspended"
    /\ op = "send"
    /\ ret.kind = "event"

\* C2: when wait_until_done returns a value the status is resolved and the
\* value is the text of the finalAnswer event that resolved the Message;
\* when it raises, the status is rejected and what it raises is the stored
\* error.
C2_WaitOutcome ==
    /\ waitResult.kind = "return"
         => /\ Resolved
            /\ pull.kind = "event"
            /\ pull.ev.type = MSGTYPE_FINAL
            /\ "text" \in pull.ev.keys
            /\ waitResult.text = pull.ev.text
    /\ waitResult.kind = "raise"
         => /\ Rejected
            /\ msg.error # NoError
            /\ waitResult.err = msg.error

\* Scenario A: the producer yields only a finalAnswer with text "hello" and
\* wait_until_done has returned "hello".
C2_Witness ==
    /\ waitResult = WaitReturned(<<"hello">>)
    /\ op = "wait_return"
    /\ npulls = 1
    /\ Resolved

\* C3: on a resolved or rejected Message __next__ raises StopIteration, does
\* not resume the generator and changes no field.
C3_TerminalNextIsInert ==
    [][(~Pending /\ op' = "next")
         => /\ ret' = RetRaise(StopIteration)
            /\ g' = g
            /\ npulls' = npulls
            /\ msg' = msg
            /\ out' = out]_vars

\* __next__ has just raised StopIteration on a rejected Message whose
\* generator is suspended with events left.
C3_Witness ==
    /\ Rejected
    /\ op = "next"
    /\ ret = RetRaise(StopIteration)
    /\ g = "suspended"
    /\ npulls < MaxPulls

\* C4: the stored error is set if and only if the status is rejected.
C4_ErrorIffRejected == (msg.error # NoError) <=> Rejected

\* C5: when the generator raises a failure as a pending Message pulls from
\* it, the Message is rejected with that failure as its error, __next__
\* returns no event, final_answer, web_search_sources and web_search_done
\* are as before, and wait_until_done raises that failure.
C5_ProducerFailure ==
    /\ [](pull.kind = "raise"
            => /\ Rejected
               /\ msg.error = pull.err
               /\ (op = "wait_return" => waitResult = WaitRaised(pull.err)))
    /\ [][(Pending /\ NextRan /\ pull'.kind = "raise")
            => /\ ResultsUnchanged
               /\ (op' = "next" => ret' = RetNone)]_vars

\* The generator raised after yielding an event and wait_until_done has
\* raised the failure.
C5_Witness ==
    /\ pull.kind = "raise"
    /\ npulls > 0
    /\ op = "wait_return"
    /\ waitResult = WaitRaised(pull.err)

\* C6: an event of none of the four known types, with or without a type
\* key, whose str() contains the overload marker rejects the Message with a
\* ModelOverloadedError.
C6_OverloadMarker ==
    (pull.kind = "event" /\ ~KnownType(pull.ev) /\ StrIn(OverloadMarker, Str(pull.ev)))
      => /\ Rejected
         /\ msg.error.kind = "ModelOverloadedError"

\* C7: an event of none of the four known types, with or without a type
\* key, without the overload marker and with an error key rejects the
\* Message with a ChatError built from the error value.
C7_ErrorField ==
    (/\ pull.kind = "event"
     /\ ~KnownType(pull.ev)
     /\ ~StrIn(OverloadMarker, Str(pull.ev))
     /\ "error" \in pull.ev.keys)
      => /\ Rejected
         /\ msg.error = ChatError(pull.ev.error)

\* The stream events among the events a loop pulled, as the loop would
\* receive them.
RECURSIVE StreamsOf(_)
StreamsOf(evs) ==
    IF evs = <<>> THEN <<>>
    ELSE IF IsStream(Head(evs)) THEN <<RetEvent(Head(evs))>> \o StreamsOf(Tail(evs))
    ELSE StreamsOf(Tail(evs))

\* C8: without _stream_yield_all, a loop over the Message receives exactly
\* the stream events pulled, in order, and nothing for any other event.
C8_OnlyStreamsSurface == ~msg._stream_yield_all => out = StreamsOf(pulled)

\* C9: with _stream_yield_all, a loop over the Message receives exactly the
\* events pulled, in order, whatever their shape.
C9_AllEventsSurface ==
    msg._stream_yield_all
      => /\ Len(out) = Len(pulled)
         /\ \A i \in 1..Len(out) : out[i] = RetEvent(pulled[i])

\* C10: until an event has been pulled, done_search() is the negation of the
\* web_search argument the Message was constructed with.
C10_InitialSearchDone == npulls = 0 => done_search(msg) = ~msg.web_search

\* C11: once __next__ has processed a stream event done_search() is true,
\* whatever web_search and the initial web_search_done were, and no call
\* ever sets web_search_done back to false.
C11_StreamEndsSearch ==
    /\ []((pull.kind = "event" /\ IsStream(pull.ev)) => done_search(msg))
    /\ [][done_search(msg) => done_search(msg')]_vars

\* A Message constructed with web_search_done = False has processed a
\* stream event and then one more event.
C11_Witness ==
    /\ done_search(msg)
    /\ Len(pulled) = 2
    /\ IsStream(pulled[1])
    /\ ~IsStream(pulled[2])
    /\ Pending

\* The step is a __next__ that pulled an event from the generator.
Processed == Pending /\ NextRan /\ pull'.kind = "event"

IsWebWithSources(a) ==
    "type" \in a.keys /\ a.type = MSGTYPE_WEB /\ "sources" \in a.keys

IsFinal(a) == "type" \in a.keys /\ a.type = MSGTYPE_FINAL

\* Every source dict of a batch as a WebSearchSource, in order.
WholeBatch(sources) == [i \in 1..Len(sources) |-> WebSearchSource(sources[i])]

\* C12: web_search_sources starts empty, becomes the whole parsed batch of
\* every webSearch event that carries sources, and is left alone by every
\* other event and call; it never holds part of a batch.
C12_SourcesAreLastBatch ==
    /\ (op = "init" => msg.web_search_sources = <<>>)
    /\ [][IF Processed /\ IsWebWithSources(pull'.ev)
            THEN msg'.web_search_sources = WholeBatch(pull'.ev.sources)
            ELSE msg'.web_search_sources = msg.web_search_sources]_vars

\* C13: a step changes final_answer only if it moves the status from pending
\* to resolved, and a step that resolves the Message stores the text of the
\* finalAnswer event it pulled; every other step leaves final_answer alone.
C13_FinalAnswerOnResolve ==
    [][/\ msg'.final_answer # msg.final_answer
            => (Pending /\ msg'.msg_status = MSGSTATUS_RESOLVED)
       /\ (Pending /\ msg'.msg_status = MSGSTATUS_RESOLVED)
            => /\ NextRan
               /\ pull'.kind = "event"
               /\ IsFinal(pull'.ev)
               /\ "text" \in pull'.ev.keys
               /\ msg'.final_answer = pull'.ev.text
       /\ (Processed /\ IsFinal(pull'.ev) /\ "text" \notin pull'.ev.keys)
            => msg'.final_answer = msg.final_answer]_vars

\* After an event that left the Message pending, a finalAnswer event stored
\* "hello", and __next__ was called again on the resolved Message.
C13_Witness ==
    /\ Resolved
    /\ msg.final_answer = <<"hello">>
    /\ npulls = 2
    /\ op = "next"
    /\ ret = RetRaise(StopIteration)

\* C14 as claimed: final_answer is non-empty if and only if the status is
\* resolved.
C14_NonEmptyIffResolved == (msg.final_answer # <<>>) <=> Resolved

\* C14: a non-empty final_answer implies a resolved status, and a resolved
\* Message holds the text of the finalAnswer event that resolved it, empty
\* if that text was empty.
C14_NonEmptyOnlyIfResolved ==
    /\ msg.final_answer # <<>> => Resolved
    /\ Resolved => (pull.kind = "event" /\ IsFinal(pull.ev)
                    /\ msg.final_answer = pull.ev.text)

\* A finalAnswer event with an empty text has resolved the Message.
C14_Witness ==
    /\ Resolved
    /\ msg.final_answer = <<>>
    /\ pull.ev = WithText(Typed(MSGTYPE_FINAL), <<>>)

\* C15: the generator yields finitely many events and then ends or raises,
\* so a wait_until_done that was entered returns or raises; it does so only
\* with a terminal status, its loop calls __next__ only while the status is
\* pending, and a `for` loop receives at most one element more than the
\* generator yielded events.
C15_WaitTerminates ==
    /\ (pc = "wait") ~> (pc = "idle" /\ op = "wait_return")
    /\ [](op = "wait_return" => (~Pending /\ waitResult.kind # "none"))
    /\ [][op' = "wait_next" => Pending]_vars
    /\ [](Len(out) <= npulls + 1)

\* wait_until_done has ended after its loop pulled every event the generator
\* had and then found it exhausted.
C15_Witness ==
    /\ op = "wait_return"
    /\ pc = "idle"
    /\ npulls = MaxPulls
    /\ pull.kind = "stop"
    /\ waitResult.kind = "raise"

\* The event has a type that is none of the four known ones, no overload
\* marker and no error key.
Unrecognized(a) ==
    /\ "type" \in a.keys
    /\ ~KnownType(a)
    /\ ~StrIn(OverloadMarker, Str(a))
    /\ "error" \notin a.keys

\* C16: an event with an unknown type, no overload marker and no error key
\* stores a ChatError describing the event and leaves the status pending;
\* a Message resolved later keeps that error and wait_until_done returns
\* the final answer all the same.
C16_UnknownKeepsPending ==
    /\ [][(Processed /\ Unrecognized(pull'.ev))
            => /\ msg'.error
                    = ChatError(<<"Unknow", "json", "response:">> \o Str(pull'.ev))
               /\ msg'.msg_status = MSGSTATUS_PENDING]_vars
    /\ []((op = "wait_return" /\ Resolved /\ msg.error # NoError)
            => waitResult = WaitReturned(msg.final_answer))

\* An unknown event, then a finalAnswer: wait_until_done returned "hello"
\* with the ChatError still stored.
C16_Witness ==
    /\ op = "wait_return"
    /\ Resolved
    /\ msg.error.kind = "ChatError"
    /\ waitResult = WaitReturned(<<"hello">>)

\* C17: send and throw only act on the generator: whatever it returns or
\* raises, no field of the Message changes, and an event handed out by them
\* is consumed without being pulled or classified by __next__.
C17_ForwardingLeavesMessage ==
    [][op' \in {"send", "throw"}
         => /\ msg' = msg
            /\ pull' = pull
            /\ pulled' = pulled
            /\ out' = out
            /\ waitResult' = waitResult
            /\ (ret'.kind = "event" => npulls' = npulls + 1)]_vars

\* send() has returned a finalAnswer event and the Message is still pending
\* with no answer.
C17_Witness ==
    /\ op = "send"
    /\ ret = RetEvent(WithText(Typed(MSGTYPE_FINAL), <<"hello">>))
    /\ Pending
    /\ msg.final_answer = <<>>
    /\ npulls = 2

\* C18: when the generator is exhausted as a pending Message pulls from it,
\* the Message is rejected with the generator's StopIteration as its error
\* and wait_until_done raises it; once a `for` loop has ended the status is
\* not pending.
C18_ExhaustionRejects ==
    /\ pull.kind = "stop"
         => /\ Rejected
            /\ msg.error = StopIteration
            /\ (op = "wait_return" => waitResult = WaitRaised(StopIteration))
    /\ (op = "next" /\ ret = RetRaise(StopIteration)) => ~Pending

\* A `for` loop got one stream event, then None from the exhausted
\* generator, then ended; wait_until_done raised StopIteration.
C18_Witness ==
    /\ pull.kind = "stop"
    /\ Len(out) = 2
    /\ out[2] = RetNone
    /\ op = "wait_return"
    /\ waitResult = WaitRaised(StopIteration)

\* C19: a rejected Message always has an error stored, so wait_until_done
\* never raises its "Rejected but no error captured!" exception.
C19_RejectedHasError ==
    /\ Rejected => msg.error # NoError
    /\ waitResult.kind = "raise" => waitResult.err.kind # "Exception"

\* wait_until_done has raised the KeyError of a finalAnswer event without
\* text.
C19_Witness ==
    /\ Rejected
    /\ op = "wait_return"
    /\ waitResult = WaitRaised(KeyError("text"))

\* What reader r shows as its web_search_sources.
Observed(r) == heap[readers[r].ref]

\* C20: of two Messages that start from the same default list, each shows
\* the sources its own events gave it, and a step in which a reader pulled
\* nothing leaves what that reader shows unchanged.
C20_NoSharedSources ==
    /\ [](\A r \in Readers : Observed(r) = readers[r].self.web_search_sources)
    /\ [][\A r \in Readers :
            (readers'[r].npulls = readers[r].npulls) => Observed(r)' = Observed(r)]_vars

\* One reader has taken a batch of sources while the other, which pulled a
\* stream event, still refers to the default list.
C20_Witness ==
    /\ Observed(1) = <<WebSearchSource(SourceT)>>
    /\ readers[2].ref = DefaultList
    /\ readers[2].npulls = 1
    /\ Observed(2) = <<>>

====
